---- MODULE Spec2Model ----
(***************************************************************************)
(* Library Management API: the book catalog store and its query pipeline,  *)
(* in its two variants:                                                    *)
(*   "mem"  library-api-server.js    (in-memory array `books`)             *)
(*   "db"   library-api-server-with-db.js (SQLite table `books`)           *)
(*                                                                         *)
(* A JavaScript string is the sequence of its UTF-16 code units, so that   *)
(* toLowerCase, includes, the relational operators, SQLite's BINARY        *)
(* collation and LIKE are computed on characters.  An optional value       *)
(* (undefined / null / SQL NULL, or a value) is a sequence of length 0 or  *)
(* 1.  A timestamp is the number of minutes since 2025-01-01T00:00:00Z.    *)
(***************************************************************************)
EXTENDS Integers, Sequences, FiniteSets, TLC

VARIABLES
  variant,   \* which server file runs: "mem" or "db"; "both" when the two
             \* servers are run side by side on the same requests
  twin,      \* "both": the rows of the SQLite server and its last response
  pending,   \* the create requests whose handler is suspended at an await
  server,    \* how far startServer has come
  books,     \* mem: the array `books`; db: the rows of table books in rowid order
  seq,       \* db: sqlite_sequence.seq of table books (AUTOINCREMENT); mem: unused
  now,       \* the wall clock read by new Date() / CURRENT_TIMESTAMP
  resp,      \* the last request and the response sent for it
  everIds,   \* history: every id that was ever stored
  deletedIds, \* history: every id whose delete was answered 204
  nCreates,  \* history: number of successful creates
  nUpdates   \* history: number of successful updates

vars == <<variant, twin, pending, server, books, seq, now, resp, everIds, deletedIds, nCreates, nUpdates>>

-----------------------------------------------------------------------------
(* Bounds of the exploration *)

MaxCreates == 2
MaxUpdates == 1
MaxTicks == 1
MaxPage == 3
MaxLimit == 2

-----------------------------------------------------------------------------
(* Values *)

Undefined == <<>>
Null == <<>>
Some(x) == <<x>>
EmptyString == <<>>

Min(S) == CHOOSE x \in S : \A y \in S : x <= y
Max(S) == CHOOSE x \in S : \A y \in S : x >= y

Reverse(s) == [i \in 1..Len(s) |-> s[Len(s) + 1 - i]]

\* String.prototype.toLowerCase on ASCII letters
ToLowerChar(c) == IF c >= 65 /\ c <= 90 THEN c + 32 ELSE c
ToLowerCase(s) == [i \in 1..Len(s) |-> ToLowerChar(s[i])]

\* String.prototype.includes
Includes(s, sub) ==
  \E i \in 0..(Len(s) - Len(sub)) : SubSeq(s, i + 1, i + Len(sub)) = sub

\* a < b on strings: lexicographic on code units (also SQLite's BINARY collation)
RECURSIVE StrLess(_, _)
StrLess(a, b) ==
  IF b = <<>> THEN FALSE
  ELSE IF a = <<>> THEN TRUE
  ELSE IF a[1] # b[1] THEN a[1] < b[1]
  ELSE StrLess(Tail(a), Tail(b))

\* !v for an optional string: undefined and "" are falsy
Falsy(v) == v = Undefined \/ v = Some(EmptyString)

\* !v for an optional number: undefined and 0 are falsy
FalsyNum(v) == v = Undefined \/ v = Some(0)

\* the value of the leading decimal digits of a string
RECURSIVE DigitsValue(_, _)
DigitsValue(s, acc) ==
  IF s = <<>> \/ s[1] < 48 \/ s[1] > 57 THEN acc
  ELSE DigitsValue(Tail(s), acc * 10 + (s[1] - 48))

\* parseInt(s) of a string that starts with an optional "-" and a digit: the
\* digits are read up to the first character that is none (requests whose
\* number has no digit, which parse to NaN, are not among the requests made)
ParseInt(s) ==
  IF s # <<>> /\ s[1] = 45 THEN 0 - DigitsValue(Tail(s), 0) ELSE DigitsValue(s, 0)

\* the decimal digits of an integer, as a client writes it into a URL
RECURSIVE NaturalString(_)
NaturalString(n) ==
  IF n < 10 THEN <<48 + n>> ELSE NaturalString(n \div 10) \o <<48 + (n % 10)>>

NumberString(n) == IF n < 0 THEN <<45>> \o NaturalString(0 - n) ELSE NaturalString(n)

-----------------------------------------------------------------------------
(* String literals of the source and of the requests *)

TheHobbit == <<84, 104, 101, 32, 72, 111, 98, 98, 105, 116>>               \* "The Hobbit"
CleanCode == <<67, 108, 101, 97, 110, 32, 67, 111, 100, 101>>              \* "Clean Code"
T1984 == <<49, 57, 56, 52>>                                                \* "1984"
IntroAlgorithms ==                                                         \* "Introduction to Algorithms"
  <<73, 110, 116, 114, 111, 100, 117, 99, 116, 105, 111, 110, 32, 116, 111,
    32, 65, 108, 103, 111, 114, 105, 116, 104, 109, 115>>
LordOfTheRings ==                                                          \* "The Lord of the Rings"
  <<84, 104, 101, 32, 76, 111, 114, 100, 32, 111, 102, 32, 116, 104, 101,
    32, 82, 105, 110, 103, 115>>
Tolkien == <<74, 46, 82, 46, 82, 46, 32, 84, 111, 108, 107, 105, 101, 110>> \* "J.R.R. Tolkien"
Martin ==                                                                  \* "Robert C. Martin"
  <<82, 111, 98, 101, 114, 116, 32, 67, 46, 32, 77, 97, 114, 116, 105, 110>>
Orwell == <<71, 101, 111, 114, 103, 101, 32, 79, 114, 119, 101, 108, 108>>  \* "George Orwell"
Cormen ==                                                                  \* "Thomas H. Cormen"
  <<84, 104, 111, 109, 97, 115, 32, 72, 46, 32, 67, 111, 114, 109, 101, 110>>
Isbn1 == <<57, 55, 56, 45, 48, 53, 52, 55, 57, 50, 56, 50, 50, 55>>         \* "978-0547928227"
Isbn2 == <<57, 55, 56, 45, 48, 49, 51, 50, 51, 53, 48, 56, 56, 52>>         \* "978-0132350884"
Isbn3 == <<57, 55, 56, 45, 48, 52, 53, 49, 53, 50, 52, 57, 51, 53>>         \* "978-0451524935"
Isbn4 == <<57, 55, 56, 45, 48, 50, 54, 50, 48, 51, 51, 56, 52, 56>>         \* "978-0262033848"
Isbn5 == <<57, 55, 56, 45, 48, 53, 52, 52, 48, 48, 51, 52, 49, 53>>         \* "978-0544003415"
fiction == <<102, 105, 99, 116, 105, 111, 110>>                            \* "fiction"
technology == <<116, 101, 99, 104, 110, 111, 108, 111, 103, 121>>          \* "technology"

\* request strings
Fiction == <<70, 105, 99, 116, 105, 111, 110>>                             \* "Fiction"
tolkien == <<116, 111, 108, 107, 105, 101, 110>>                           \* "tolkien"
theHobbitLower == <<116, 104, 101, 32, 104, 111, 98, 98, 105, 116>>        \* "the hobbit"
zen == <<122, 101, 110>>                                                   \* "zen"
adams == <<97, 100, 97, 109, 115>>                                         \* "adams"
IsbnA == <<65>>                                                            \* "A"
IsbnB == <<66>>                                                            \* "B"
Str_title == <<116, 105, 116, 108, 101>>                                       \* "title"
Str_author == <<97, 117, 116, 104, 111, 114>>                                  \* "author"
Str_published_year ==                                                          \* "published_year"
  <<112, 117, 98, 108, 105, 115, 104, 101, 100, 95, 121, 101, 97, 114>>
Str_isbn == <<105, 115, 98, 110>>                                              \* "isbn"
Str_asc == <<97, 115, 99>>                                                     \* "asc"
Str_desc == <<100, 101, 115, 99>>                                              \* "desc"
Str_DESC == <<68, 69, 83, 67>>                                                 \* "DESC"
Str_true == <<116, 114, 117, 101>>                                             \* "true"
Str_false == <<102, 97, 108, 115, 101>>                                        \* "false"
Str_t_l == <<116, 95, 108>>                                                    \* "t_l"

-----------------------------------------------------------------------------
(* Responses *)

NoRequest == [none |-> TRUE]

\* res.status(status).json(...): one shape for every response
Response(op, req, status, code) ==
  [op |-> op, req |-> req, status |-> status, code |-> code,
   details |-> <<>>,          \* error.details of a 400: the fields named
   existing_book_id |-> <<>>, \* error.details.existing_book_id of a 409
   body |-> <<>>,             \* the book of a 200/201 single-record response
   data |-> <<>>,             \* data of a list response
   pagination |-> <<>>]       \* pagination of a list response

\* mutant of ValidationDetails: the isbn entry is left out
ValidationDetails_NoIsbn(draft) ==
  SelectSeq(<<"title", "author">>, LAMBDA f : Falsy(draft[f]))

\* the `details` array of the VALIDATION_ERROR response
ValidationDetails(draft) ==
  SelectSeq(<<"title", "author", "isbn">>, LAMBDA f : Falsy(draft[f]))

MissingRequired(draft) ==
  Falsy(draft.title) \/ Falsy(draft.author) \/ Falsy(draft.isbn)

-----------------------------------------------------------------------------
(* The seeded stores *)

SeedLatest == 16395  \* "2025-01-12T09:15:00Z", the latest timestamp of the mem seed

\* the server is started after the seed data was written
StartTime == SeedLatest + 1

MemSeed ==
  << [id |-> 1, title |-> TheHobbit, author |-> Tolkien, isbn |-> Isbn1,
      published_year |-> Some(1937), category |-> Some(fiction),
      copies_available |-> 3, copies_total |-> 5,
      created_at |-> 0, updated_at |-> 6390],
     [id |-> 2, title |-> CleanCode, author |-> Martin, isbn |-> Isbn2,
      published_year |-> Some(2008), category |-> Some(technology),
      copies_available |-> 2, copies_total |-> 2,
      created_at |-> 1440, updated_at |-> 1440],
     [id |-> 3, title |-> T1984, author |-> Orwell, isbn |-> Isbn3,
      published_year |-> Some(1949), category |-> Some(fiction),
      copies_available |-> 0, copies_total |-> 4,
      created_at |-> 2880, updated_at |-> 13820],
     [id |-> 4, title |-> IntroAlgorithms, author |-> Cormen, isbn |-> Isbn4,
      published_year |-> Some(2009), category |-> Some(technology),
      copies_available |-> 1, copies_total |-> 3,
      created_at |-> 4320, updated_at |-> 4320],
     [id |-> 5, title |-> LordOfTheRings, author |-> Tolkien, isbn |-> Isbn5,
      published_year |-> Some(1954), category |-> Some(fiction),
      copies_available |-> 2, copies_total |-> 6,
      created_at |-> 5760, updated_at |-> SeedLatest] >>

\* initializeDatabase on an empty file: AUTOINCREMENT ids 1..5, both timestamps
\* default to CURRENT_TIMESTAMP
DbSeed ==
  [i \in 1..Len(MemSeed) |->
     [MemSeed[i] EXCEPT !.created_at = StartTime, !.updated_at = StartTime]]

Ids(bs) == {bs[i].id : i \in 1..Len(bs)}

-----------------------------------------------------------------------------
(* In-memory variant: library-api-server.js *)

\* mutant of MemFindByIsbn: the lookup never finds a book
MemFindByIsbn_Never(bs, i) == Undefined

\* books.find(book => book.isbn === isbn)
MemFindByIsbn(bs, i) ==
  LET hits == {k \in 1..Len(bs) : bs[k].isbn = i}
  IN IF hits = {} THEN Undefined ELSE Some(bs[Min(hits)])

\* mutant of MemFindIndex: the -1 of findIndex is used as an index, which
\* splice takes for the last element
MemFindIndex_Last(bs, bookId) ==
  LET hits == {k \in 1..Len(bs) : bs[k].id = bookId}
  IN IF hits = {} THEN Len(bs) ELSE Min(hits)

\* books.findIndex(b => b.id === bookId); 0 stands for -1
MemFindIndex(bs, bookId) ==
  LET hits == {k \in 1..Len(bs) : bs[k].id = bookId}
  IN IF hits = {} THEN 0 ELSE Min(hits)

\* id: books.length + 1
MemNewId(bs) == Len(bs) + 1

\* app.post('/books', ...): the new array and the response
MemPostBooks(bs, draft, t) ==
  LET req == [draft |-> draft]
  IN IF MissingRequired(draft)
     THEN [books |-> bs,
           resp |-> [Response("create", req, 400, "VALIDATION_ERROR")
                       EXCEPT !.details = ValidationDetails(draft)]]
     ELSE LET existingBook == MemFindByIsbn(bs, draft.isbn[1])
          IN IF existingBook # Undefined
             THEN [books |-> bs,
                   resp |-> [Response("create", req, 409, "DUPLICATE_ISBN")
                               EXCEPT !.existing_book_id = Some(existingBook[1].id)]]
             ELSE LET copies_total == IF draft.copies_total = Undefined
                                      THEN 1 ELSE draft.copies_total[1]
                      newBook ==
                        [id |-> MemNewId(bs),
                         title |-> draft.title[1],
                         author |-> draft.author[1],
                         isbn |-> draft.isbn[1],
                         published_year |-> IF FalsyNum(draft.published_year)
                                            THEN Null ELSE draft.published_year,
                         category |-> IF Falsy(draft.category)
                                      THEN Null ELSE draft.category,
                         copies_available |-> copies_total,
                         copies_total |-> copies_total,
                         created_at |-> t,
                         updated_at |-> t]
                  IN [books |-> Append(bs, newBook),
                      resp |-> [Response("create", req, 201, "")
                                  EXCEPT !.body = Some(newBook)]]

\* app.get('/books/:id', ...)
MemGetBook(bs, id) ==
  LET req == [id |-> id]
      bookId == ParseInt(id)
      k == MemFindIndex(bs, bookId)
  IN IF k = 0
     THEN Response("get", req, 404, "RESOURCE_NOT_FOUND")
     ELSE [Response("get", req, 200, "") EXCEPT !.body = Some(bs[k])]

\* books.splice(bookIndex, 1)
Splice(bs, k) == SubSeq(bs, 1, k - 1) \o SubSeq(bs, k + 1, Len(bs))

\* app.delete('/books/:id', ...)
MemDeleteBook(bs, id) ==
  LET req == [id |-> id]
      bookId == ParseInt(id)
      bookIndex == MemFindIndex(bs, bookId)
  IN IF bookIndex = 0
     THEN [books |-> bs, resp |-> Response("delete", req, 404, "RESOURCE_NOT_FOUND")]
     ELSE [books |-> Splice(bs, bookIndex),
           resp |-> Response("delete", req, 204, "")]

-----------------------------------------------------------------------------
(* In-memory variant: GET /books, the filter -> sort -> paginate pipeline *)

DefaultPage == <<49>>       \* page = 1
DefaultLimit == <<50, 48>>  \* limit = 20

\* const { sort_by = 'title', order = 'asc', page = 1, limit = 20 } = req.query
OrDefault(v, d) == IF v = Undefined THEN d ELSE v[1]

ValidSortFields == {Str_title, Str_published_year, Str_author}

\* mutant of Ceil: the quotient is rounded down
Ceil_Floor(a, b) == a \div b

\* Math.ceil(a / b) for a >= 0, b > 0
Ceil(a, b) == (a + b - 1) \div b

\* true iff the filter callback throws: null.toLowerCase() is a TypeError
MemCategoryThrows(bs) == \E k \in 1..Len(bs) : bs[k].category = Null

\* book.category.toLowerCase() === category.toLowerCase()
MemCategoryMatch(book, category) ==
  ToLowerCase(book.category[1]) = ToLowerCase(category)

\* book.author.toLowerCase().includes(author.toLowerCase())
MemAuthorMatch(book, a) == Includes(ToLowerCase(book.author), ToLowerCase(a))

\* isAvailable ? book.copies_available > 0 : book.copies_available === 0
AvailableMatch(book, available) ==
  IF available = Str_true THEN book.copies_available > 0
  ELSE book.copies_available = 0

\* mutant of MemFilter: the first record that passes the filters is dropped
MemFilter_SkipFirst(bs, q) ==
  LET byCategory == IF Falsy(q.category) THEN bs
                    ELSE SelectSeq(bs, LAMBDA b : MemCategoryMatch(b, q.category[1]))
      byAuthor == IF Falsy(q.author) THEN byCategory
                  ELSE SelectSeq(byCategory, LAMBDA b : MemAuthorMatch(b, q.author[1]))
      byAvailable == IF q.available = Undefined THEN byAuthor
                     ELSE SelectSeq(byAuthor, LAMBDA b : AvailableMatch(b, q.available[1]))
  IN IF byAvailable = <<>> THEN <<>> ELSE Tail(byAvailable)

\* STEP 4 of app.get('/books'): the three filters, in order
MemFilter(bs, q) ==
  LET byCategory == IF Falsy(q.category) THEN bs
                    ELSE SelectSeq(bs, LAMBDA b : MemCategoryMatch(b, q.category[1]))
      byAuthor == IF Falsy(q.author) THEN byCategory
                  ELSE SelectSeq(byCategory, LAMBDA b : MemAuthorMatch(b, q.author[1]))
  IN IF q.available = Undefined THEN byAuthor
     ELSE SelectSeq(byAuthor, LAMBDA b : AvailableMatch(b, q.available[1]))

\* the relational operators on a number or null: null converts to 0
ToNumber(v) == IF v = Null THEN 0 ELSE v[1]

\* aVal > bVal, after toLowerCase when the values are strings
MemGreater(a, b, sort_by) ==
  IF sort_by = Str_published_year
  THEN ToNumber(a.published_year) > ToNumber(b.published_year)
  ELSE IF sort_by = Str_title
  THEN StrLess(ToLowerCase(b.title), ToLowerCase(a.title))
  ELSE StrLess(ToLowerCase(b.author), ToLowerCase(a.author))

\* mutant of MemCompare: the order parameter is ignored
MemCompare_AscOnly(a, b, sort_by, order) ==
  IF MemGreater(a, b, sort_by) THEN 1 ELSE -1

\* the comparator passed to filteredBooks.sort
MemCompare(a, b, sort_by, order) ==
  IF order = Str_asc
  THEN IF MemGreater(a, b, sort_by) THEN 1 ELSE -1
  ELSE IF MemGreater(b, a, sort_by) THEN 1 ELSE -1

\* Array.prototype.sort as V8 runs it on fewer than 64 elements: the first run
\* is counted (and reversed when strictly descending), the rest is inserted by
\* binary search.  Indices are zero-based as in the engine.
RECURSIVE RunEnd(_, _, _, _, _)
RunEnd(a, idx, isDescending, sort_by, order) ==
  IF idx >= Len(a) THEN idx
  ELSE LET o == MemCompare(a[idx + 1], a[idx], sort_by, order)
       IN IF (isDescending /\ o >= 0) \/ (~isDescending /\ o < 0)
          THEN idx
          ELSE RunEnd(a, idx + 1, isDescending, sort_by, order)

CountAndMakeRun(a, sort_by, order) ==
  LET isDescending == MemCompare(a[2], a[1], sort_by, order) < 0
      runLength == RunEnd(a, 2, isDescending, sort_by, order)
  IN [runLength |-> runLength,
      array |-> IF isDescending
                THEN Reverse(SubSeq(a, 1, runLength)) \o SubSeq(a, runLength + 1, Len(a))
                ELSE a]

RECURSIVE BinarySearch(_, _, _, _, _, _)
BinarySearch(a, pivot, left, right, sort_by, order) ==
  IF left >= right THEN left
  ELSE LET mid == left + ((right - left) \div 2)
       IN IF MemCompare(pivot, a[mid + 1], sort_by, order) < 0
          THEN BinarySearch(a, pivot, left, mid, sort_by, order)
          ELSE BinarySearch(a, pivot, mid + 1, right, sort_by, order)

RECURSIVE BinaryInsertionSort(_, _, _, _)
BinaryInsertionSort(a, start, sort_by, order) ==
  IF start >= Len(a) THEN a
  ELSE LET pivot == a[start + 1]
           left == BinarySearch(a, pivot, 0, start, sort_by, order)
           moved == SubSeq(a, 1, left) \o <<pivot>> \o SubSeq(a, left + 1, start)
                      \o SubSeq(a, start + 2, Len(a))
       IN BinaryInsertionSort(moved, start + 1, sort_by, order)

\* filteredBooks.sort((a, b) => ...)
MemSort(a, sort_by, order) ==
  IF Len(a) < 2 THEN a
  ELSE LET run == CountAndMakeRun(a, sort_by, order)
       IN BinaryInsertionSort(run.array, run.runLength, sort_by, order)

\* Array.prototype.slice(start, end): a negative index counts from the end
Slice(a, start, end) ==
  LET len == Len(a)
      from == IF start < 0 THEN Max({len + start, 0}) ELSE Min({start, len})
      to == IF end < 0 THEN Max({len + end, 0}) ELSE Min({end, len})
  IN SubSeq(a, from + 1, to)

Pagination(pageNum, totalPages, totalItems, limitNum) ==
  Some([current_page |-> pageNum, total_pages |-> totalPages,
        total_items |-> totalItems, items_per_page |-> limitNum])

InvalidParameter(req, field) ==
  [Response("list", req, 400, "INVALID_PARAMETER") EXCEPT !.details = <<field>>]

\* app.get('/books', ...)
MemGetBooks(bs, q) ==
  LET req == [query |-> q]
      sort_by == OrDefault(q.sort_by, Str_title)
      order == OrDefault(q.order, Str_asc)
      page == OrDefault(q.page, DefaultPage)
      limit == OrDefault(q.limit, DefaultLimit)
  IN IF sort_by \notin ValidSortFields THEN InvalidParameter(req, "sort_by")
     ELSE IF order \notin {Str_asc, Str_desc} THEN InvalidParameter(req, "order")
     ELSE IF ~Falsy(q.category) /\ MemCategoryThrows(bs)
     THEN Response("list", req, 500, "TypeError")
     ELSE LET filteredBooks == MemSort(MemFilter(bs, q), sort_by, order)
              pageNum == ParseInt(page)
              limitNum == ParseInt(limit)
              startIndex == (pageNum - 1) * limitNum
              endIndex == startIndex + limitNum
              paginatedBooks == Slice(filteredBooks, startIndex, endIndex)
              totalItems == Len(filteredBooks)
              totalPages == Ceil(totalItems, limitNum)
          IN [Response("list", req, 200, "") EXCEPT
                !.data = paginatedBooks,
                !.pagination = Pagination(pageNum, totalPages, totalItems, limitNum)]

\* PUT /books/:id: the file registers no route for it, so Express answers 404
\* whatever the id and the body are
MemPutBook(bs, id, draft) ==
  [books |-> bs,
   resp |-> Response("update", [id |-> id, draft |-> draft], 404, "Cannot PUT")]

\* mutant of MemBooksAfterList: filteredBooks is the array `books` itself, so
\* that a list without filters sorts the store in place
MemBooksAfterList_InPlace(bs, q) ==
  LET sort_by == OrDefault(q.sort_by, Str_title)
      order == OrDefault(q.order, Str_asc)
  IN IF /\ sort_by \in ValidSortFields
        /\ order \in {Str_asc, Str_desc}
        /\ Falsy(q.category) /\ Falsy(q.author) /\ q.available = Undefined
     THEN MemSort(bs, sort_by, order)
     ELSE bs

\* the array `books` after app.get('/books'): let filteredBooks = [...books]
\* copies it, filter returns new arrays and sort works in place on the copy
MemBooksAfterList(bs, q) == bs

-----------------------------------------------------------------------------
(* SQLite variant: library-api-server-with-db.js *)

\* mutant of DbSelectByIsbn: the lookup never finds a row
DbSelectByIsbn_Never(bs, i) == Undefined

\* SELECT ... FROM books WHERE isbn = ?
DbSelectByIsbn(bs, i) ==
  LET hits == {k \in 1..Len(bs) : bs[k].isbn = i}
  IN IF hits = {} THEN Undefined ELSE Some(bs[Min(hits)])

\* mutant of DbSelectById: without a row of the id the first row is returned
DbSelectById_First(bs, bookId) ==
  LET hits == {k \in 1..Len(bs) : bs[k].id = bookId}
  IN IF hits = {} THEN Min({1, Len(bs)}) ELSE Min(hits)

\* SELECT * FROM books WHERE id = ?: the index of the row, 0 if there is none
DbSelectById(bs, bookId) ==
  LET hits == {k \in 1..Len(bs) : bs[k].id = bookId}
  IN IF hits = {} THEN 0 ELSE Min(hits)

\* id INTEGER PRIMARY KEY AUTOINCREMENT: one more than the largest rowid the
\* table ever held
DbNewId(bs, sq) == Max(Ids(bs) \cup {sq}) + 1

\* mutant of DbUniqueIsbn: the column is declared without UNIQUE
DbUniqueIsbn_Off(bs, i, exceptId) == TRUE

\* isbn TEXT UNIQUE NOT NULL
DbUniqueIsbn(bs, i, exceptId) ==
  \A k \in 1..Len(bs) : bs[k].id # exceptId => bs[k].isbn # i

\* INSERT INTO books (title, author, isbn, published_year, category,
\* copies_available, copies_total) VALUES (?, ?, ?, ?, ?, ?, ?): the row stored
DbInsertRow(bs, sq, draft, t) ==
  LET copies_total == IF draft.copies_total = Undefined
                      THEN 1 ELSE draft.copies_total[1]
  IN [id |-> DbNewId(bs, sq),
      title |-> draft.title[1],
      author |-> draft.author[1],
      isbn |-> draft.isbn[1],
      published_year |-> draft.published_year,
      category |-> draft.category,
      copies_available |-> copies_total,
      copies_total |-> copies_total,
      created_at |-> t,
      updated_at |-> t]

\* app.post('/books', ...): the new table, sqlite_sequence and the response
DbPostBooks(bs, sq, draft, t) ==
  LET req == [draft |-> draft]
  IN IF MissingRequired(draft)
     THEN [books |-> bs, seq |-> sq,
           resp |-> [Response("create", req, 400, "VALIDATION_ERROR")
                       EXCEPT !.details = ValidationDetails(draft)]]
     ELSE LET existingBook == DbSelectByIsbn(bs, draft.isbn[1])
          IN IF existingBook # Undefined
             THEN [books |-> bs, seq |-> sq,
                   resp |-> [Response("create", req, 409, "DUPLICATE_ISBN")
                               EXCEPT !.existing_book_id = Some(existingBook[1].id)]]
             ELSE IF ~DbUniqueIsbn(bs, draft.isbn[1], 0)
             THEN [books |-> bs, seq |-> sq,
                   resp |-> Response("create", req, 500, "DATABASE_ERROR")]
             ELSE LET newBook == DbInsertRow(bs, sq, draft, t)
                  IN [books |-> Append(bs, newBook), seq |-> newBook.id,
                      resp |-> [Response("create", req, 201, "")
                                  EXCEPT !.body = Some(newBook)]]

\* app.get('/books/:id', ...)
DbGetBook(bs, id) ==
  LET req == [id |-> id]
      bookId == ParseInt(id)
      k == DbSelectById(bs, bookId)
  IN IF k = 0
     THEN Response("get", req, 404, "RESOURCE_NOT_FOUND")
     ELSE [Response("get", req, 200, "") EXCEPT !.body = Some(bs[k])]

\* mutant of DbUpdateRow: created_at is written together with updated_at
DbUpdateRow_Recreated(bs, k, row) ==
  [bs EXCEPT ![k] = [row EXCEPT !.created_at = row.updated_at]]

\* UPDATE books SET ... WHERE id = ?: the row of that id is replaced, in place
DbUpdateRow(bs, k, row) == [bs EXCEPT ![k] = row]

\* mutant of DbSelectOtherByIsbn: the lookup never finds a row
DbSelectOtherByIsbn_Never(bs, i, bookId) == {}

\* SELECT id FROM books WHERE isbn = ? AND id != ?: the indices of the rows
DbSelectOtherByIsbn(bs, i, bookId) ==
  {j \in 1..Len(bs) : bs[j].isbn = i /\ bs[j].id # bookId}

\* app.put('/books/:id', ...)
DbPutBook(bs, id, draft, t) ==
  LET req == [id |-> id, draft |-> draft]
      bookId == ParseInt(id)
      k == DbSelectById(bs, bookId)
  IN IF MissingRequired(draft)
     THEN [books |-> bs,
           resp |-> [Response("update", req, 400, "VALIDATION_ERROR")
                       EXCEPT !.details = ValidationDetails(draft)]]
     ELSE IF k = 0
     THEN [books |-> bs, resp |-> Response("update", req, 404, "RESOURCE_NOT_FOUND")]
     ELSE LET existingBook == bs[k]
              duplicateISBN == DbSelectOtherByIsbn(bs, draft.isbn[1], bookId)
          IN IF draft.isbn[1] # existingBook.isbn /\ duplicateISBN # {}
             THEN [books |-> bs,
                   resp |-> [Response("update", req, 409, "DUPLICATE_ISBN")
                               EXCEPT !.existing_book_id =
                                        Some(bs[Min(duplicateISBN)].id)]]
             ELSE IF ~DbUniqueIsbn(bs, draft.isbn[1], bookId)
             THEN [books |-> bs, resp |-> Response("update", req, 500, "DATABASE_ERROR")]
             ELSE LET availableDifference == existingBook.copies_available
                      newCopiesTotal == IF FalsyNum(draft.copies_total)
                                        THEN existingBook.copies_total
                                        ELSE draft.copies_total[1]
                      updatedBook ==
                        [existingBook EXCEPT
                           !.title = draft.title[1],
                           !.author = draft.author[1],
                           !.isbn = draft.isbn[1],
                           !.published_year = draft.published_year,
                           !.category = draft.category,
                           !.copies_total = newCopiesTotal,
                           !.copies_available = availableDifference,
                           !.updated_at = t]
                  IN [books |-> DbUpdateRow(bs, k, updatedBook),
                      resp |-> [Response("update", req, 200, "")
                                  EXCEPT !.body = Some(updatedBook)]]

\* app.delete('/books/:id', ...)
DbDeleteBook(bs, id) ==
  LET req == [id |-> id]
      bookId == ParseInt(id)
      k == DbSelectById(bs, bookId)
  IN IF k = 0
     THEN [books |-> bs, resp |-> Response("delete", req, 404, "RESOURCE_NOT_FOUND")]
     ELSE [books |-> Splice(bs, k), resp |-> Response("delete", req, 204, "")]

-----------------------------------------------------------------------------
(* SQLite variant: GET /books, the WHERE / ORDER BY / LIMIT OFFSET query *)

\* String.prototype.toUpperCase on ASCII letters
ToUpperChar(c) == IF c >= 97 /\ c <= 122 THEN c - 32 ELSE c
ToUpperCase(s) == [i \in 1..Len(s) |-> ToUpperChar(s[i])]

\* X LIKE P in SQLite: % matches any run of characters, _ any one character,
\* ASCII letters match without regard to case
RECURSIVE Like(_, _)
Like(p, x) ==
  IF p = <<>> THEN x = <<>>
  ELSE IF p[1] = 37 THEN Like(Tail(p), x) \/ (x # <<>> /\ Like(p, Tail(x)))
  ELSE IF x = <<>> THEN FALSE
  ELSE IF p[1] = 95 THEN Like(Tail(p), Tail(x))
  ELSE ToLowerChar(p[1]) = ToLowerChar(x[1]) /\ Like(Tail(p), Tail(x))

\* category = ?  (BINARY collation; NULL = ? is not true)
DbCategoryMatch(row, category) ==
  row.category # Null /\ row.category[1] = category

\* author LIKE ?  with the parameter `%${author}%`
DbAuthorMatch(row, a) == Like(<<37>> \o a \o <<37>>, row.author)

\* the WHERE clause: the conditions joined by AND
DbWhere(bs, q) ==
  SelectSeq(bs, LAMBDA row :
    /\ Falsy(q.category) \/ DbCategoryMatch(row, q.category[1])
    /\ Falsy(q.author) \/ DbAuthorMatch(row, q.author[1])
    /\ q.available = Undefined \/ AvailableMatch(row, q.available[1]))

\* the ORDER BY key of a row sorts before that of another, ascending: NULL is
\* the smallest value, integers compare numerically, text by BINARY collation
DbKeyLess(a, b, sort_by) ==
  IF sort_by = Str_published_year
  THEN IF b.published_year = Null THEN FALSE
       ELSE IF a.published_year = Null THEN TRUE
       ELSE a.published_year[1] < b.published_year[1]
  ELSE IF sort_by = Str_title THEN StrLess(a.title, b.title)
  ELSE StrLess(a.author, b.author)

\* row a is returned before row b: by the key in the direction asked for; rows
\* of equal key in the order of the table scan (the sorter's key ends with the
\* sequence number of the row)
DbBefore(a, b, sort_by, direction) ==
  IF direction = Str_DESC
  THEN DbKeyLess(b, a, sort_by) \/ (~DbKeyLess(a, b, sort_by) /\ a.id < b.id)
  ELSE DbKeyLess(a, b, sort_by) \/ (~DbKeyLess(b, a, sort_by) /\ a.id < b.id)

\* ORDER BY ${sort_by} ${order.toUpperCase()}
RECURSIVE DbOrderBy(_, _, _)
DbOrderBy(rows, sort_by, direction) ==
  IF rows = <<>> THEN <<>>
  ELSE LET first == CHOOSE k \in 1..Len(rows) :
                      \A j \in 1..Len(rows) :
                        j # k => DbBefore(rows[k], rows[j], sort_by, direction)
       IN <<rows[first]>> \o DbOrderBy(Splice(rows, first), sort_by, direction)

\* LIMIT ? OFFSET ?: a negative OFFSET is 0, a negative LIMIT is no limit
DbLimitOffset(rows, limitNum, offset) ==
  LET skip == IF offset < 0 THEN 0 ELSE offset
      take == IF limitNum < 0 THEN Len(rows) ELSE limitNum
  IN SubSeq(rows, skip + 1, Min({skip + take, Len(rows)}))

\* app.get('/books', ...)
DbGetBooks(bs, q) ==
  LET req == [query |-> q]
      sort_by == OrDefault(q.sort_by, Str_title)
      order == OrDefault(q.order, Str_asc)
      page == OrDefault(q.page, DefaultPage)
      limit == OrDefault(q.limit, DefaultLimit)
  IN IF sort_by \notin ValidSortFields THEN InvalidParameter(req, "sort_by")
     ELSE IF ToLowerCase(order) \notin {Str_asc, Str_desc}
     THEN InvalidParameter(req, "order")
     ELSE LET matching == DbWhere(bs, q)
              total == Len(matching)
              pageNum == ParseInt(page)
              limitNum == ParseInt(limit)
              offset == (pageNum - 1) * limitNum
              totalPages == Ceil(total, limitNum)
              rows == DbLimitOffset(DbOrderBy(matching, sort_by, ToUpperCase(order)),
                                    limitNum, offset)
          IN [Response("list", req, 200, "") EXCEPT
                !.data = rows,
                !.pagination = Pagination(pageNum, totalPages, total, limitNum)]

-----------------------------------------------------------------------------
(* The server process *)

\* startServer has run to its end: the database is initialized and app.listen
\* was called
Listening == [init |-> "done", listened |-> TRUE, exited |-> FALSE]

-----------------------------------------------------------------------------
(* Request bodies and parameters *)

Draft(t, a, i, y, c, n) ==
  [title |-> t, author |-> a, isbn |-> i, published_year |-> y,
   category |-> c, copies_total |-> n]

\* {"title": "the hobbit", "author": "adams", "isbn": "A"}
DraftA == Draft(Some(theHobbitLower), Some(adams), Some(IsbnA),
                Undefined, Undefined, Undefined)

\* {"title": "zen", "author": "J.R.R. Tolkien", "isbn": "B",
\*  "published_year": 1949, "category": "Fiction", "copies_total": 0}
DraftB == Draft(Some(zen), Some(Tolkien), Some(IsbnB),
                Some(1949), Some(Fiction), Some(0))

Drafts ==
  { DraftA, DraftB,
    [DraftA EXCEPT !.isbn = Some(Isbn3)],
    [DraftB EXCEPT !.isbn = Some(Isbn1), !.copies_total = Some(-1),
                   !.published_year = Some(0)],
    [DraftA EXCEPT !.title = Undefined],
    [DraftB EXCEPT !.author = Some(EmptyString)],
    [DraftA EXCEPT !.title = Undefined, !.isbn = Some(Isbn3)],
    Draft(Undefined, Undefined, Undefined, Undefined, Undefined, Undefined) }

\* the bodies of the PUT requests
UpdateDrafts ==
  { DraftA,
    [DraftA EXCEPT !.isbn = Some(Isbn3)],
    [DraftB EXCEPT !.isbn = Some(Isbn1), !.copies_total = Some(1)],
    [DraftB EXCEPT !.isbn = Some(Isbn1), !.copies_total = Some(0)],
    [DraftB EXCEPT !.author = Some(EmptyString)] }

\* the :id of the requests: an id no store holds, the first id of the seed and
\* the first id after the seed
BookIds == {NumberString(n) : n \in {0, 1, Len(MemSeed) + 1}}

Query(c, a, v, s, o, p, l) ==
  [category |-> c, author |-> a, available |-> v, sort_by |-> s, order |-> o,
   page |-> p, limit |-> l]

\* GET /books
DefaultQuery ==
  Query(Undefined, Undefined, Undefined, Undefined, Undefined, Undefined, Undefined)

\* GET /books, GET /books?sort_by=isbn, GET /books?order=DESC
BasicQueries ==
  { DefaultQuery,
    [DefaultQuery EXCEPT !.sort_by = Some(Str_isbn)],
    [DefaultQuery EXCEPT !.order = Some(Str_DESC)] }

\* every combination of the three filters, in the default order
FilterQueries ==
  { Query(c, a, v, Undefined, Undefined, Undefined, Undefined) :
      c \in {Undefined, Some(fiction), Some(Fiction)},
      a \in {Undefined, Some(tolkien), Some(Str_t_l)},
      v \in {Undefined, Some(Str_true), Some(Str_false)} }

\* every valid sort, of the whole store and of one category
SortQueries ==
  { Query(c, Undefined, Undefined, s, o, Undefined, Undefined) :
      c \in {Undefined, Some(fiction)},
      s \in {Undefined, Some(Str_title), Some(Str_published_year), Some(Str_author)},
      o \in {Undefined, Some(Str_asc), Some(Str_desc)} }

\* the pages of the whole store and of one category, pages outside the set included
PageQueries ==
  { Query(c, Undefined, Undefined, so[1], so[2],
          Some(NumberString(p)), Some(NumberString(l))) :
      c \in {Undefined, Some(fiction)},
      so \in {<<Undefined, Undefined>>, <<Some(Str_author), Some(Str_desc)>>},
      p \in -1..MaxPage,
      l \in 1..MaxLimit }

Queries == FilterQueries \cup SortQueries \cup PageQueries \cup BasicQueries

-----------------------------------------------------------------------------
(* The state machine: one action per route of each server *)

Init ==
  /\ variant \in {"mem", "db"}
  /\ twin = <<>>
  /\ pending = <<>>
  /\ server = Listening
  /\ books = IF variant = "mem" THEN MemSeed ELSE DbSeed
  /\ seq = IF variant = "mem" THEN 0 ELSE Len(DbSeed)
  /\ now = StartTime
  /\ resp = Response("none", NoRequest, 0, "")
  /\ everIds = Ids(MemSeed)
  /\ deletedIds = {}
  /\ nCreates = 0
  /\ nUpdates = 0

\* time passes between two requests
Tick ==
  /\ now < StartTime + MaxTicks
  /\ now' = now + 1
  /\ UNCHANGED <<variant, twin, pending, server, books, seq, resp, everIds, deletedIds, nCreates, nUpdates>>

Created(r) == r.resp.status = 201
Updated(r) == r.resp.status = 200

\* GET /books, mem
MemList(queries) ==
  /\ variant = "mem"
  /\ \E q \in queries :
       /\ resp' = MemGetBooks(books, q)
       /\ books' = MemBooksAfterList(books, q)
  /\ UNCHANGED <<variant, twin, pending, server, seq, now, everIds, deletedIds, nCreates, nUpdates>>

\* GET /books, db
DbList(queries) ==
  /\ variant = "db"
  /\ \E q \in queries : resp' = DbGetBooks(books, q)
  /\ UNCHANGED <<variant, twin, pending, server, books, seq, now, everIds, deletedIds, nCreates, nUpdates>>

\* POST /books, mem
MemCreate(drafts) ==
  /\ variant = "mem"
  /\ \E draft \in drafts :
       LET r == MemPostBooks(books, draft, now)
       IN /\ Created(r) => nCreates < MaxCreates
          /\ books' = r.books
          /\ resp' = r.resp
          /\ everIds' = everIds \cup Ids(r.books)
          /\ nCreates' = IF Created(r) THEN nCreates + 1 ELSE nCreates
  /\ UNCHANGED <<variant, twin, pending, server, seq, now, deletedIds, nUpdates>>

\* GET /books/:id, mem
MemGet(ids) ==
  /\ variant = "mem"
  /\ \E id \in ids : resp' = MemGetBook(books, id)
  /\ UNCHANGED <<variant, twin, pending, server, books, seq, now, everIds, deletedIds, nCreates, nUpdates>>

\* DELETE /books/:id, mem
MemDelete(ids) ==
  /\ variant = "mem"
  /\ \E id \in ids :
       LET r == MemDeleteBook(books, id)
       IN /\ books' = r.books
          /\ resp' = r.resp
          /\ deletedIds' = IF r.resp.status = 204
                           THEN deletedIds \cup {ParseInt(id)} ELSE deletedIds
  /\ UNCHANGED <<variant, twin, pending, server, seq, now, everIds, nCreates, nUpdates>>

\* POST /books, db
DbCreate(drafts) ==
  /\ variant = "db"
  /\ \E draft \in drafts :
       LET r == DbPostBooks(books, seq, draft, now)
       IN /\ Created(r) => nCreates < MaxCreates
          /\ books' = r.books
          /\ seq' = r.seq
          /\ resp' = r.resp
          /\ everIds' = everIds \cup Ids(r.books)
          /\ nCreates' = IF Created(r) THEN nCreates + 1 ELSE nCreates
  /\ UNCHANGED <<variant, twin, pending, server, now, deletedIds, nUpdates>>

\* GET /books/:id, db
DbGet(ids) ==
  /\ variant = "db"
  /\ \E id \in ids : resp' = DbGetBook(books, id)
  /\ UNCHANGED <<variant, twin, pending, server, books, seq, now, everIds, deletedIds, nCreates, nUpdates>>

\* PUT /books/:id, db
DbUpdate(ids, drafts) ==
  /\ variant = "db"
  /\ \E id \in ids, draft \in drafts :
       LET r == DbPutBook(books, id, draft, now)
       IN /\ Updated(r) => nUpdates < MaxUpdates
          /\ books' = r.books
          /\ resp' = r.resp
          /\ nUpdates' = IF Updated(r) THEN nUpdates + 1 ELSE nUpdates
  /\ UNCHANGED <<variant, twin, pending, server, seq, now, everIds, deletedIds, nCreates>>

\* DELETE /books/:id, db
DbDelete(ids) ==
  /\ variant = "db"
  /\ \E id \in ids :
       LET r == DbDeleteBook(books, id)
       IN /\ books' = r.books
          /\ resp' = r.resp
          /\ deletedIds' = IF r.resp.status = 204
                           THEN deletedIds \cup {ParseInt(id)} ELSE deletedIds
  /\ UNCHANGED <<variant, twin, pending, server, seq, now, everIds, nCreates, nUpdates>>

Next ==
  \/ Tick
  \/ MemList(BasicQueries)
  \/ DbList(BasicQueries)
  \/ MemCreate(Drafts)
  \/ MemGet(BookIds)
  \/ MemDelete(BookIds)
  \/ DbCreate(Drafts)
  \/ DbGet(BookIds)
  \/ DbUpdate(BookIds, UpdateDrafts)
  \/ DbDelete(BookIds)

Spec == Init /\ [][Next]_vars

\* The query pipeline on the stores reached by a few creates and deletes
ListDrafts == {DraftA, DraftB}
ListBookIds == {NumberString(3)}

NextList ==
  \/ MemList(Queries)
  \/ DbList(Queries)
  \/ MemCreate(ListDrafts)
  \/ MemDelete(ListBookIds)
  \/ DbCreate(ListDrafts)
  \/ DbDelete(ListBookIds)

SpecList == Init /\ [][NextList]_vars

\* initializeDatabase on the file library.db as the last run left it: the
\* table exists (CREATE TABLE IF NOT EXISTS does nothing), and the five sample
\* books are inserted when SELECT COUNT(*) finds no row; their ids continue
\* sqlite_sequence
InitializeDatabase(bs, sq, t) ==
  IF Len(bs) = 0
  THEN [books |-> [i \in 1..Len(MemSeed) |->
                     [MemSeed[i] EXCEPT !.id = sq + i,
                                        !.created_at = t, !.updated_at = t]],
        seq |-> sq + Len(MemSeed)]
  ELSE [books |-> bs, seq |-> sq]

\* the SQLite server is stopped and started again: startServer
DbRestart ==
  /\ variant = "db"
  /\ LET r == InitializeDatabase(books, seq, now)
     IN /\ books' = r.books
        /\ seq' = r.seq
        /\ everIds' = everIds \cup Ids(r.books)
  /\ resp' = Response("restart", NoRequest, 0, "")
  /\ UNCHANGED <<variant, twin, pending, server, now, deletedIds, nCreates, nUpdates>>

\* the SQLite server with restarts, on stores that deletes can empty
InitDb == Init /\ variant = "db"

SeedBookIds == {NumberString(n) : n \in 1..Len(MemSeed)}

NextRestart ==
  \/ DbRestart
  \/ DbCreate(ListDrafts)
  \/ DbDelete(SeedBookIds)
  \/ DbGet(SeedBookIds)

SpecRestart == InitDb /\ [][NextRestart]_vars

\* The two servers side by side: `books` and `resp` are those of the in-memory
\* server, `twin` and `seq` those of the SQLite server, and every request is
\* sent to both.
InitBoth ==
  /\ variant = "both"
  /\ pending = <<>>
  /\ server = Listening
  /\ books = MemSeed
  /\ twin = [books |-> DbSeed, resp |-> Response("none", NoRequest, 0, "")]
  /\ seq = Len(DbSeed)
  /\ now = StartTime
  /\ resp = Response("none", NoRequest, 0, "")
  /\ everIds = Ids(MemSeed)
  /\ deletedIds = {}
  /\ nCreates = 0
  /\ nUpdates = 0

BothList(queries) ==
  /\ variant = "both"
  /\ \E q \in queries :
       /\ resp' = MemGetBooks(books, q)
       /\ books' = MemBooksAfterList(books, q)
       /\ twin' = [twin EXCEPT !.resp = DbGetBooks(twin.books, q)]
  /\ UNCHANGED <<variant, pending, server, seq, now, everIds, deletedIds, nCreates, nUpdates>>

BothCreate(drafts) ==
  /\ variant = "both"
  /\ \E draft \in drafts :
       LET m == MemPostBooks(books, draft, now)
           d == DbPostBooks(twin.books, seq, draft, now)
       IN /\ (Created(m) \/ Created(d)) => nCreates < MaxCreates
          /\ books' = m.books
          /\ resp' = m.resp
          /\ seq' = d.seq
          /\ twin' = [books |-> d.books, resp |-> d.resp]
          /\ nCreates' = IF Created(m) \/ Created(d) THEN nCreates + 1 ELSE nCreates
  /\ UNCHANGED <<variant, pending, server, now, everIds, deletedIds, nUpdates>>

BothGet(ids) ==
  /\ variant = "both"
  /\ \E id \in ids :
       /\ resp' = MemGetBook(books, id)
       /\ twin' = [twin EXCEPT !.resp = DbGetBook(twin.books, id)]
  /\ UNCHANGED <<variant, pending, server, books, seq, now, everIds, deletedIds, nCreates, nUpdates>>

BothUpdate(ids, drafts) ==
  /\ variant = "both"
  /\ \E id \in ids, draft \in drafts :
       LET m == MemPutBook(books, id, draft)
           d == DbPutBook(twin.books, id, draft, now)
       IN /\ Updated(d) => nUpdates < MaxUpdates
          /\ books' = m.books
          /\ resp' = m.resp
          /\ twin' = [books |-> d.books, resp |-> d.resp]
          /\ nUpdates' = IF Updated(d) THEN nUpdates + 1 ELSE nUpdates
  /\ UNCHANGED <<variant, pending, server, seq, now, everIds, deletedIds, nCreates>>

BothDelete(ids) ==
  /\ variant = "both"
  /\ \E id \in ids :
       LET m == MemDeleteBook(books, id)
           d == DbDeleteBook(twin.books, id)
       IN /\ books' = m.books
          /\ resp' = m.resp
          /\ twin' = [books |-> d.books, resp |-> d.resp]
  /\ UNCHANGED <<variant, pending, server, seq, now, everIds, deletedIds, nCreates, nUpdates>>

NextBoth ==
  \/ BothList(BasicQueries \cup FilterQueries)
  \/ BothCreate(ListDrafts)
  \/ BothGet(BookIds)
  \/ BothUpdate(BookIds, UpdateDrafts)
  \/ BothDelete(BookIds)

SpecBoth == InitBoth /\ [][NextBoth]_vars

-----------------------------------------------------------------------------
(* Concurrent creates: a handler runs until its next await, and the handlers
   of other requests run while it is suspended *)

MaxRequests == 2

Slots == 1..MaxRequests

NoResponse == Response("none", NoRequest, 0, "")

\* a connection on which no request has arrived
Idle ==
  [pc |-> "idle", draft |-> <<>>, existingBook |-> Undefined, lastID |-> 0,
   resp |-> NoResponse]

\* the handler has sent its response
Done(draft, r) ==
  [pc |-> "done", draft |-> Some(draft), existingBook |-> Undefined,
   lastID |-> 0, resp |-> r]

\* POST /books, db, up to `await db.get('SELECT id FROM books WHERE isbn = ?')`:
\* the validation and the lookup
DbPostLookup(bs, draft) ==
  IF MissingRequired(draft)
  THEN Done(draft, [Response("create", [draft |-> draft], 400, "VALIDATION_ERROR")
                      EXCEPT !.details = ValidationDetails(draft)])
  ELSE [pc |-> "insert", draft |-> Some(draft),
        existingBook |-> DbSelectByIsbn(bs, draft.isbn[1]),
        lastID |-> 0, resp |-> NoResponse]

\* POST /books, db, from the result of the lookup up to `await db.run(INSERT)`:
\* the 409, the insert, and the catch of a failed insert
DbPostInsert(bs, sq, p, t) ==
  LET draft == p.draft[1]
      req == [draft |-> draft]
  IN IF p.existingBook # Undefined
     THEN [books |-> bs, seq |-> sq,
           pending |-> [p EXCEPT !.pc = "done", !.resp =
             [Response("create", req, 409, "DUPLICATE_ISBN")
                EXCEPT !.existing_book_id = Some(p.existingBook[1].id)]]]
     ELSE IF ~DbUniqueIsbn(bs, draft.isbn[1], 0)
     THEN [books |-> bs, seq |-> sq,
           pending |-> [p EXCEPT !.pc = "done", !.resp =
                          Response("create", req, 500, "DATABASE_ERROR")]]
     ELSE LET newBook == DbInsertRow(bs, sq, draft, t)
          IN [books |-> Append(bs, newBook), seq |-> newBook.id,
              pending |-> [p EXCEPT !.pc = "fetch", !.lastID = newBook.id]]

\* POST /books, db, from result.lastID on: the row is read back and sent
DbPostFetch(bs, p) ==
  LET draft == p.draft[1]
      k == DbSelectById(bs, p.lastID)
  IN IF k = 0
     THEN [p EXCEPT !.pc = "done", !.resp =
             Response("create", [draft |-> draft], 500, "DATABASE_ERROR")]
     ELSE [p EXCEPT !.pc = "done", !.resp =
             [Response("create", [draft |-> draft], 201, "")
                EXCEPT !.body = Some(bs[k])]]

InitRace ==
  /\ variant \in {"mem", "db"}
  /\ twin = <<>>
  /\ pending = [s \in Slots |-> Idle]
  /\ server = Listening
  /\ books = IF variant = "mem" THEN MemSeed ELSE DbSeed
  /\ seq = Len(DbSeed)
  /\ now = StartTime
  /\ resp = NoResponse
  /\ everIds = Ids(MemSeed)
  /\ deletedIds = {}
  /\ nCreates = 0
  /\ nUpdates = 0

\* POST /books, mem: the handler has no await and runs from the request to the
\* response in one turn of the event loop
RaceMemCreate(drafts) ==
  /\ variant = "mem"
  /\ \E s \in Slots, draft \in drafts :
       LET r == MemPostBooks(books, draft, now)
       IN /\ pending[s].pc = "idle"
          /\ books' = r.books
          /\ resp' = r.resp
          /\ pending' = [pending EXCEPT ![s] = Done(draft, r.resp)]
  /\ UNCHANGED <<variant, twin, server, seq, now, everIds, deletedIds, nCreates, nUpdates>>

RaceDbLookup(drafts) ==
  /\ variant = "db"
  /\ \E s \in Slots, draft \in drafts :
       LET p == DbPostLookup(books, draft)
       IN /\ pending[s].pc = "idle"
          /\ pending' = [pending EXCEPT ![s] = p]
          /\ resp' = IF p.pc = "done" THEN p.resp ELSE resp
  /\ UNCHANGED <<variant, twin, server, books, seq, now, everIds, deletedIds, nCreates, nUpdates>>

RaceDbInsert ==
  /\ variant = "db"
  /\ \E s \in Slots :
       /\ pending[s].pc = "insert"
       /\ LET r == DbPostInsert(books, seq, pending[s], now)
          IN /\ books' = r.books
             /\ seq' = r.seq
             /\ pending' = [pending EXCEPT ![s] = r.pending]
             /\ resp' = IF r.pending.pc = "done" THEN r.pending.resp ELSE resp
  /\ UNCHANGED <<variant, twin, server, now, everIds, deletedIds, nCreates, nUpdates>>

RaceDbFetch ==
  /\ variant = "db"
  /\ \E s \in Slots :
       /\ pending[s].pc = "fetch"
       /\ LET p == DbPostFetch(books, pending[s])
          IN /\ pending' = [pending EXCEPT ![s] = p]
             /\ resp' = p.resp
  /\ UNCHANGED <<variant, twin, server, books, seq, now, everIds, deletedIds, nCreates, nUpdates>>

RaceDrafts ==
  { DraftA, DraftB,
    [DraftB EXCEPT !.isbn = Some(Isbn1)],
    [DraftA EXCEPT !.title = Undefined] }

NextRace ==
  \/ RaceMemCreate(RaceDrafts)
  \/ RaceDbLookup(RaceDrafts)
  \/ RaceDbInsert
  \/ RaceDbFetch

SpecRace == InitRace /\ [][NextRace]_vars

-----------------------------------------------------------------------------
(* Startup of the SQLite server: startServer and initializeDatabase step by
   step; `books` and `seq` are the file library.db *)

\* the process has been started and startServer has not yet run
Starting == [init |-> "none", listened |-> FALSE, exited |-> FALSE]

\* mutant of CanListen: app.listen is called without awaiting
\* initializeDatabase
CanListen_NoAwait(sv) == ~sv.listened /\ ~sv.exited

\* await initializeDatabase(); app.listen(PORT, ...)
CanListen(sv) == sv.init = "done" /\ ~sv.listened /\ ~sv.exited

\* the server socket is open and the process runs
Accepting(sv) == sv.listened /\ ~sv.exited

\* the file is new, or an earlier run left it with the books 2..5
InitStart ==
  /\ variant = "db"
  /\ twin = <<>>
  /\ pending = <<>>
  /\ server = Starting
  /\ \E old \in BOOLEAN :
       /\ books = IF old THEN SubSeq(DbSeed, 2, Len(DbSeed)) ELSE <<>>
       /\ seq = IF old THEN Len(DbSeed) ELSE 0
       /\ everIds = IF old THEN Ids(DbSeed) ELSE {}
       /\ deletedIds = IF old THEN {1} ELSE {}
  /\ now = StartTime
  /\ resp = NoResponse
  /\ nCreates = 0
  /\ nUpdates = 0

\* db = await open({filename: './library.db', ...})
StartOpen ==
  /\ server.init = "none" /\ ~server.exited
  /\ server' = [server EXCEPT !.init = "opened"]
  /\ UNCHANGED <<variant, twin, pending, books, seq, now, resp, everIds, deletedIds, nCreates, nUpdates>>

\* await db.exec(`CREATE TABLE IF NOT EXISTS books ...`)
StartCreateTable ==
  /\ server.init = "opened" /\ ~server.exited
  /\ server' = [server EXCEPT !.init = "created"]
  /\ UNCHANGED <<variant, twin, pending, books, seq, now, resp, everIds, deletedIds, nCreates, nUpdates>>

\* const count = await db.get('SELECT COUNT(*) as count FROM books');
\* if (count.count === 0) ... else ...
StartCount ==
  /\ server.init = "created" /\ ~server.exited
  /\ server' = [server EXCEPT !.init = IF Len(books) = 0 THEN "seeding" ELSE "done"]
  /\ UNCHANGED <<variant, twin, pending, books, seq, now, resp, everIds, deletedIds, nCreates, nUpdates>>

\* for (const book of books) await db.run(`INSERT INTO books ...`): one turn
\* of the loop, and its end
StartSeed ==
  /\ server.init = "seeding" /\ ~server.exited
  /\ IF Len(books) < Len(MemSeed)
     THEN LET row == [MemSeed[Len(books) + 1]
                        EXCEPT !.id = DbNewId(books, seq),
                               !.created_at = now, !.updated_at = now]
          IN /\ books' = Append(books, row)
             /\ seq' = row.id
             /\ everIds' = everIds \cup {row.id}
             /\ UNCHANGED server
     ELSE /\ server' = [server EXCEPT !.init = "done"]
          /\ UNCHANGED <<books, seq, everIds>>
  /\ UNCHANGED <<variant, twin, pending, now, resp, deletedIds, nCreates, nUpdates>>

\* an awaited database call of initializeDatabase rejects:
\* catch (error) { ...; process.exit(1); }
StartFail ==
  /\ server.init \in {"none", "opened", "created", "seeding"} /\ ~server.exited
  /\ server' = [server EXCEPT !.exited = TRUE]
  /\ UNCHANGED <<variant, twin, pending, books, seq, now, resp, everIds, deletedIds, nCreates, nUpdates>>

\* app.listen(PORT, ...)
StartListen ==
  /\ CanListen(server)
  /\ server' = [server EXCEPT !.listened = TRUE]
  /\ UNCHANGED <<variant, twin, pending, books, seq, now, resp, everIds, deletedIds, nCreates, nUpdates>>

\* process.on('SIGINT', ...): process.exit(0)
StartSigint ==
  /\ ~server.exited
  /\ server' = [server EXCEPT !.exited = TRUE]
  /\ UNCHANGED <<variant, twin, pending, books, seq, now, resp, everIds, deletedIds, nCreates, nUpdates>>

\* a database call on a db that initializeDatabase has not finished with is
\* taken to throw, and the catch block of the handler answers 500
DbError(op, req) == Response(op, req, 500, "DATABASE_ERROR")

\* GET /books/:id on a server that accepts requests
StartGet(ids) ==
  /\ Accepting(server)
  /\ \E id \in ids :
       resp' = IF server.init = "done" THEN DbGetBook(books, id)
               ELSE DbError("get", [id |-> id])
  /\ UNCHANGED <<variant, twin, pending, server, books, seq, now, everIds, deletedIds, nCreates, nUpdates>>

\* POST /books on a server that accepts requests
StartCreate(drafts) ==
  /\ Accepting(server)
  /\ \E draft \in drafts :
       LET r == IF server.init = "done" THEN DbPostBooks(books, seq, draft, now)
                ELSE [books |-> books, seq |-> seq,
                      resp |-> DbError("create", [draft |-> draft])]
       IN /\ Created(r) => nCreates < MaxCreates
          /\ books' = r.books
          /\ seq' = r.seq
          /\ resp' = r.resp
          /\ everIds' = everIds \cup Ids(r.books)
          /\ nCreates' = IF Created(r) THEN nCreates + 1 ELSE nCreates
  /\ UNCHANGED <<variant, twin, pending, server, now, deletedIds, nUpdates>>

\* DELETE /books/:id on a server that accepts requests
StartDelete(ids) ==
  /\ Accepting(server)
  /\ \E id \in ids :
       LET r == IF server.init = "done" THEN DbDeleteBook(books, id)
                ELSE [books |-> books, resp |-> DbError("delete", [id |-> id])]
       IN /\ books' = r.books
          /\ resp' = r.resp
          /\ deletedIds' = IF r.resp.status = 204
                           THEN deletedIds \cup {ParseInt(id)} ELSE deletedIds
  /\ UNCHANGED <<variant, twin, pending, server, seq, now, everIds, nCreates, nUpdates>>

NextStart ==
  \/ StartOpen
  \/ StartCreateTable
  \/ StartCount
  \/ StartSeed
  \/ StartFail
  \/ StartListen
  \/ StartSigint
  \/ StartGet(SeedBookIds)
  \/ StartCreate(ListDrafts)
  \/ StartDelete(SeedBookIds)

SpecStart == InitStart /\ [][NextStart]_vars

-----------------------------------------------------------------------------
(* Properties *)

\* the step is the handling of one request of the kind op
Handled(op) == resp'.op = op /\ now' = now

Isbns(bs) == {bs[i].isbn : i \in 1..Len(bs)}

\* the list route of the running variant
GetBooks(bs, q) == IF variant = "mem" THEN MemGetBooks(bs, q) ELSE DbGetBooks(bs, q)

IsListOk == resp.op = "list" /\ resp.status = 200

\* C1: in every reachable state no two stored books have the same isbn.
C1_IsbnUnique ==
  \A i, j \in 1..Len(books) : i # j => books[i].isbn # books[j].isbn

\* a duplicate isbn was just rejected, in a store that holds a created book
C1_Witness ==
  /\ resp.op \in {"create", "update"}
  /\ resp.status = 409
  /\ nCreates > 0
  /\ Len(books) > Len(MemSeed)

\* C2: in every reachable state no two stored books have the same id.
C2_IdUnique ==
  \A i, j \in 1..Len(books) : i # j => books[i].id # books[j].id

\* C3: the id assigned by a successful create was never stored before.
C3_IdNeverReused ==
  [][nCreates' # nCreates => resp'.body[1].id \notin everIds]_vars

\* C4 as claimed: a create whose isbn is already stored always signals 409 and
\* leaves the store as it was.
C4_DuplicateAlways409 ==
  [][(/\ Handled("create")
      /\ resp'.req.draft.isbn # Undefined
      /\ resp'.req.draft.isbn[1] \in Isbns(books))
     => (resp'.status = 409 /\ resp'.code = "DUPLICATE_ISBN" /\ books' = books)]_vars

\* C4 as amended: a create with non-empty title and author whose isbn is
\* already stored signals 409 and leaves the store as it was; without the
\* title or the author it signals 400, the store again as it was.
C4_DuplicateRejected ==
  [][(/\ Handled("create")
      /\ resp'.req.draft.isbn # Undefined
      /\ resp'.req.draft.isbn[1] \in Isbns(books))
     => /\ books' = books
        /\ IF \/ resp'.req.draft.title \in {Undefined, Some(EmptyString)}
              \/ resp'.req.draft.author \in {Undefined, Some(EmptyString)}
           THEN resp'.status = 400
           ELSE resp'.status = 409 /\ resp'.code = "DUPLICATE_ISBN"]_vars

\* a create naming the isbn of a stored book was answered 409
C4_Witness ==
  /\ resp.op = "create"
  /\ resp.status = 409
  /\ resp.req.draft.isbn[1] \in Isbns(books)
  /\ resp.existing_book_id # <<>>

\* C5: a delete of an id that is not stored signals 404 and leaves the store
\* unchanged.
C5_DeleteMissing ==
  [][(Handled("delete") /\ ParseInt(resp'.req.id) \notin Ids(books))
     => (resp'.status = 404 /\ books' = books /\ Len(books') = Len(books))]_vars

\* a delete of an absent id was answered 404
C5_Witness ==
  /\ resp.op = "delete"
  /\ resp.status = 404
  /\ ParseInt(resp.req.id) \notin Ids(books)

\* C6: a create with title, author or isbn missing or empty signals 400, its
\* details name each missing field once and no present field, and the store
\* does not grow.
C6_MissingFields ==
  [][LET draft == resp'.req.draft
         missing == {f \in {"title", "author", "isbn"} :
                       draft[f] = <<>> \/ draft[f] = << <<>> >>}
     IN (Handled("create") /\ missing # {})
        => /\ resp'.status = 400
           /\ resp'.code = "VALIDATION_ERROR"
           /\ {resp'.details[i] : i \in 1..Len(resp'.details)} = missing
           /\ Len(resp'.details) = Cardinality(missing)
           /\ Len(books') <= Len(books)
           /\ books' = books]_vars

\* a create with an empty author was answered 400 naming author alone
C6_Witness ==
  /\ resp.op = "create"
  /\ resp.status = 400
  /\ resp.details = <<"author">>

\* the concatenation of the pages 1..n of the query q
RECURSIVE PagesUpTo(_, _, _)
PagesUpTo(bs, q, n) ==
  IF n = 0 THEN <<>>
  ELSE PagesUpTo(bs, q, n - 1)
         \o GetBooks(bs, [q EXCEPT !.page = Some(NumberString(n))]).data

\* C7: total_pages is ceil(total_items / limit), and the pages 1..total_pages
\* hold every filtered record exactly once.
C7_PagesPartition ==
  IsListOk =>
    LET q == resp.req.query
        meta == resp.pagination[1]
        limit == meta.items_per_page
        all == PagesUpTo(books, q, meta.total_pages)
        whole == GetBooks(books, [q EXCEPT !.page = Undefined,
                                           !.limit = Some(NumberString(Len(books) + 1))]).data
    IN /\ limit > 0
       /\ meta.total_pages * limit >= meta.total_items
       /\ (meta.total_pages - 1) * limit < meta.total_items \/ meta.total_pages = 0
       /\ Len(all) = meta.total_items
       /\ \A i, j \in 1..Len(all) : i # j => all[i] # all[j]
       /\ {all[i] : i \in 1..Len(all)} = {whole[i] : i \in 1..Len(whole)}
       /\ all = whole

\* page 2 of 3 was served with two of five records
C7_Witness ==
  /\ IsListOk
  /\ resp.pagination[1].current_page = 2
  /\ resp.pagination[1].total_pages = 3
  /\ resp.pagination[1].total_items = 5
  /\ Len(resp.data) = 2

\* C8: a page whose index range holds no valid index is served empty.
C8_OutsidePageEmpty ==
  IsListOk =>
    LET meta == resp.pagination[1]
        start == (meta.current_page - 1) * meta.items_per_page
        end == start + meta.items_per_page
    IN (\A i \in start..(end - 1) : i < 0 \/ i >= meta.total_items)
         => resp.data = <<>>

\* the sort keys of the records, compared without regard to case, all differ
NoTies(rows, sort_by) ==
  \A i, j \in 1..Len(rows) :
    i # j =>
      IF sort_by = Str_published_year
      THEN rows[i].published_year # rows[j].published_year
      ELSE IF sort_by = Str_title
      THEN ToLowerCase(rows[i].title) # ToLowerCase(rows[j].title)
      ELSE ToLowerCase(rows[i].author) # ToLowerCase(rows[j].author)

\* the whole result of the query q in the order o
Whole(bs, q, o) ==
  GetBooks(bs, [q EXCEPT !.order = Some(o), !.page = Undefined,
                         !.limit = Some(NumberString(Len(bs) + 1))]).data

\* C9: when no two filtered records have equal sort keys, the whole result in
\* ascending order is the reverse of the whole result in descending order.
C9_AscReversesDesc ==
  IsListOk =>
    LET q == resp.req.query
        up == Whole(books, q, Str_asc)
        down == Whole(books, q, Str_desc)
    IN NoTies(up, OrDefault(q.sort_by, Str_title)) => up = Reverse(down)

\* at least three records without ties were listed in descending order
C9_Witness ==
  /\ IsListOk
  /\ resp.req.query.order = Some(Str_desc)
  /\ resp.req.query.page = Undefined
  /\ Len(resp.data) >= 3
  /\ NoTies(resp.data, OrDefault(resp.req.query.sort_by, Str_title))
  /\ resp.data = Reverse(Whole(books, resp.req.query, Str_asc))

\* C10: category values that differ only in letter case select the same records.
C10_CategoryAnyCase ==
  (IsListOk /\ ~Falsy(resp.req.query.category)) =>
    LET q == resp.req.query
        c == q.category[1]
        lower == GetBooks(books, [q EXCEPT !.category = Some(ToLowerCase(c))])
        upper == GetBooks(books, [q EXCEPT !.category = Some(ToUpperCase(c))])
    IN /\ lower.data = resp.data
       /\ upper.data = resp.data
       /\ lower.pagination = resp.pagination
       /\ upper.pagination = resp.pagination

\* the records selected by the author filter a alone, all on one page
ByAuthorAlone(bs, a) ==
  GetBooks(bs, [DefaultQuery EXCEPT !.author = Some(a),
                                    !.limit = Some(NumberString(Len(bs) + 1))]).data

\* C11: the author filter selects exactly the stored books whose lower-cased
\* author contains the lower-cased filter value as a contiguous substring.
C11_AuthorSubstring ==
  (IsListOk /\ ~Falsy(resp.req.query.author)) =>
    LET a == resp.req.query.author[1]
        selected == ByAuthorAlone(books, a)
    IN /\ \A i, j \in 1..Len(selected) : i # j => selected[i] # selected[j]
       /\ {selected[i] : i \in 1..Len(selected)}
            = {books[k] : k \in {n \in 1..Len(books) :
                                   Includes(ToLowerCase(books[n].author), ToLowerCase(a))}}

\* the book satisfies every filter the query supplies: category equal without
\* regard to case, author containing the value without regard to case,
\* available=true copies_available > 0 and available=false copies_available = 0
Satisfies(book, q) ==
  /\ q.category # Undefined =>
        (book.category # Null
           /\ ToLowerCase(book.category[1]) = ToLowerCase(q.category[1]))
  /\ q.author # Undefined =>
        Includes(ToLowerCase(book.author), ToLowerCase(q.author[1]))
  /\ q.available = Some(Str_true) => book.copies_available > 0
  /\ q.available = Some(Str_false) => book.copies_available = 0

\* C12: the total_items of a list response is the number of stored books that
\* satisfy every supplied filter.
C12_Conjunctive ==
  IsListOk =>
    resp.pagination[1].total_items
      = Cardinality({k \in 1..Len(books) : Satisfies(books[k], resp.req.query)})

\* the filter step of the running variant
Filter(bs, q) == IF variant = "mem" THEN MemFilter(bs, q) ELSE DbWhere(bs, q)

\* the whole result of the query q on the records bs, on one page
AllOf(bs, q) ==
  GetBooks(bs, [q EXCEPT !.page = Undefined,
                         !.limit = Some(NumberString(Len(bs) + 1))]).data

SetOf(rows) == {rows[i] : i \in 1..Len(rows)}

\* C13: the filters of a list request, applied to the records the request
\* selected, select all of them again: filtering twice is filtering once.
C13_FilterIdempotent ==
  IsListOk =>
    LET q == resp.req.query
        once == AllOf(books, q)
        twice == AllOf(once, q)
    IN /\ SetOf(twice) = SetOf(once)
       /\ Len(twice) = Len(once)
       /\ Filter(Filter(books, q), q) = Filter(books, q)

\* a list filtered by author and availability selected some of the records,
\* not all
C13_Witness ==
  /\ IsListOk
  /\ resp.req.query.author # Undefined
  /\ resp.req.query.available # Undefined
  /\ resp.data # <<>>
  /\ Len(resp.data) < Len(books)
  /\ AllOf(resp.data, resp.req.query) = resp.data

\* C14: a list request whose sort_by is not title, published_year or author, or
\* whose order is not exactly asc or desc, is answered 400 INVALID_PARAMETER
\* without data, and the store is left as it was.
C14_InvalidRejected ==
  [][LET q == resp'.req.query
     IN (/\ Handled("list")
         /\ \/ (q.sort_by # Undefined
                  /\ q.sort_by[1] \notin {Str_title, Str_published_year, Str_author})
            \/ (q.order # Undefined /\ q.order[1] \notin {Str_asc, Str_desc}))
        => /\ resp'.status = 400
           /\ resp'.code = "INVALID_PARAMETER"
           /\ resp'.data = <<>>
           /\ resp'.pagination = <<>>
           /\ books' = books]_vars

\* C15: a list request, answered or rejected, leaves the stored records and
\* their storage order as they were.
C15_ListFrame ==
  [][Handled("list") => (books' = books /\ seq' = seq)]_vars

\* a list was answered with all the records in another order than the store
\* holds them, and the store still holds a record created before
C15_Witness ==
  /\ IsListOk
  /\ nCreates > 0
  /\ Len(resp.data) = Len(books)
  /\ resp.data # books
  /\ SetOf(resp.data) = SetOf(books)

\* the create request of the step has a title, an author and an isbn, none
\* empty, and no stored book has its isbn
Creatable ==
  LET draft == resp'.req.draft
  IN /\ Handled("create")
     /\ draft.title \notin {Undefined, Some(EmptyString)}
     /\ draft.author \notin {Undefined, Some(EmptyString)}
     /\ draft.isbn \notin {Undefined, Some(EmptyString)}
     /\ draft.isbn[1] \notin Isbns(books)

\* the step answered 201 and appended one record that carries the fields of
\* the draft
CreatedAsDrafted ==
  LET draft == resp'.req.draft
      new == books'[Len(books')]
  IN /\ resp'.status = 201
     /\ Len(books') = Len(books) + 1
     /\ SubSeq(books', 1, Len(books)) = books
     /\ new.title = draft.title[1]
     /\ new.author = draft.author[1]
     /\ new.isbn = draft.isbn[1]
     /\ new.published_year = draft.published_year
     /\ new.category = draft.category
     /\ new.copies_total = (IF draft.copies_total = <<>> THEN 1
                            ELSE draft.copies_total[1])
     /\ new.copies_available = new.copies_total
     /\ resp'.body = <<new>>

\* C16: a create with non-empty title, author and an isbn not stored is
\* answered 201; the store grows by one record that carries the fields of the
\* draft, with copies_total 1 when omitted and copies_available equal to
\* copies_total; the records stored before are unchanged, and the response is
\* the stored record.
C16_CreateSucceeds == [][Creatable => CreatedAsDrafted]_vars

\* the get route of the running variant
GetBook(bs, id) == IF variant = "mem" THEN MemGetBook(bs, id) ELSE DbGetBook(bs, id)

\* C17: right after a create was answered 201 with a record of id X, the get
\* of X is answered 200 with that same record.
C17_CreateGetRoundTrip ==
  (resp.op = "create" /\ resp.status = 201) =>
    LET got == GetBook(books, NumberString(resp.body[1].id))
    IN got.status = 200 /\ got.body = resp.body

\* C18: once the delete of an id was answered 204, every later get and delete
\* of that id is answered 404.
C18_DeletePermanent ==
  [][((Handled("get") \/ Handled("delete")) /\ ParseInt(resp'.req.id) \in deletedIds)
     => resp'.status = 404]_vars

\* the update request of the step names an id that is not stored
UpdateOfAbsent == Handled("update") /\ ParseInt(resp'.req.id) \notin Ids(books)

\* C19 as claimed: an update of an id that is not stored is answered 404
\* whatever the body holds, and the store is left as it was.
C19_UpdateAbsentAlways404 ==
  [][UpdateOfAbsent
     => (resp'.status = 404 /\ resp'.code = "RESOURCE_NOT_FOUND" /\ books' = books)]_vars

\* C19 as amended: an update of an id that is not stored is answered 404 when
\* the body holds a title, an author and an isbn, none empty, and 400 when one
\* of them is missing or empty; the store is left as it was in both cases.
C19_UpdateAbsent ==
  [][UpdateOfAbsent
     => /\ books' = books
        /\ IF \E f \in {"title", "author", "isbn"} :
                resp'.req.draft[f] \in {Undefined, Some(EmptyString)}
           THEN resp'.status = 400 /\ resp'.code = "VALIDATION_ERROR"
           ELSE resp'.status = 404 /\ resp'.code = "RESOURCE_NOT_FOUND"]_vars

\* an update of an id that is not stored was answered 404
C19_Witness ==
  /\ resp.op = "update"
  /\ resp.status = 404
  /\ ParseInt(resp.req.id) \notin Ids(books)
  /\ resp.req.draft.title # Undefined

\* the update request of the step names a stored id and the isbn of another
\* stored record
UpdateCollides ==
  LET draft == resp'.req.draft
  IN /\ Handled("update")
     /\ ParseInt(resp'.req.id) \in Ids(books)
     /\ draft.isbn # Undefined
     /\ \E k \in 1..Len(books) :
          books[k].isbn = draft.isbn[1] /\ books[k].id # ParseInt(resp'.req.id)

\* the update request of the step names a stored id and the isbn that record has
UpdateKeepsIsbn ==
  LET draft == resp'.req.draft
  IN /\ Handled("update")
     /\ draft.isbn # Undefined
     /\ \E k \in 1..Len(books) :
          books[k].id = ParseInt(resp'.req.id) /\ books[k].isbn = draft.isbn[1]

\* C20 as claimed: an update with the isbn of another stored record is answered
\* 409 and changes no record; an update with the record's own isbn is never
\* answered 409.
C20_UpdateDuplicateAlways409 ==
  [][/\ UpdateCollides
          => (resp'.status = 409 /\ resp'.code = "DUPLICATE_ISBN" /\ books' = books)
     /\ UpdateKeepsIsbn => resp'.status # 409]_vars

\* C20 as amended: an update with non-empty title and author and the isbn of
\* another stored record is answered 409, without them 400, and changes no
\* record in both cases; an update with the record's own isbn is never
\* answered 409.
C20_UpdateDuplicate ==
  [][/\ UpdateCollides
          => /\ books' = books
             /\ IF \/ resp'.req.draft.title \in {Undefined, Some(EmptyString)}
                   \/ resp'.req.draft.author \in {Undefined, Some(EmptyString)}
                THEN resp'.status = 400 /\ resp'.code = "VALIDATION_ERROR"
                ELSE resp'.status = 409 /\ resp'.code = "DUPLICATE_ISBN"
     /\ UpdateKeepsIsbn => (resp'.status # 409 /\ resp'.code # "DUPLICATE_ISBN")]_vars

\* an update naming the isbn of another stored record was answered 409, after
\* an update with the record's own isbn had succeeded
C20_Witness ==
  /\ resp.op = "update"
  /\ resp.status = 409
  /\ nUpdates > 0
  /\ \E k \in 1..Len(books) :
       /\ books[k].isbn = resp.req.draft.isbn[1]
       /\ books[k].id # ParseInt(resp.req.id)
       /\ resp.existing_book_id = <<books[k].id>>

\* the step is an update that was answered 200
UpdateSucceeds == Handled("update") /\ resp'.status = 200

\* C21: a successful update of id X leaves the id and created_at of the record
\* as they were, sets its updated_at to the current time, and changes no
\* other record.
C21_UpdateFrame ==
  [][UpdateSucceeds =>
       LET X == ParseInt(resp'.req.id)
       IN /\ Len(books') = Len(books)
          /\ \A k \in 1..Len(books) :
               IF books[k].id = X
               THEN /\ books'[k].id = X
                    /\ books'[k].created_at = books[k].created_at
                    /\ books'[k].updated_at = now
                    /\ books'[k].updated_at >= books[k].updated_at
                    /\ resp'.body = <<books'[k]>>
               ELSE books'[k] = books[k]
          /\ \E k \in 1..Len(books) : books[k].id = X]_vars

\* a record was updated later than it was created, next to a record created
\* by a request
C21_Witness ==
  /\ resp.op = "update"
  /\ resp.status = 200
  /\ resp.body[1].updated_at > resp.body[1].created_at
  /\ resp.body[1] \in SetOf(books)
  /\ Len(books) > Len(DbSeed)

\* C22: after a successful update every mutable field of the stored record
\* has the value the draft supplied, a copies_total of 0 included.
C22_UpdateReplacesFields ==
  [][UpdateSucceeds =>
       LET X == ParseInt(resp'.req.id)
           draft == resp'.req.draft
       IN \A k \in 1..Len(books') :
            books'[k].id = X =>
              /\ books'[k].title = draft.title[1]
              /\ books'[k].author = draft.author[1]
              /\ books'[k].isbn = draft.isbn[1]
              /\ books'[k].published_year = draft.published_year
              /\ books'[k].category = draft.category
              /\ draft.copies_total # <<>>
                   => books'[k].copies_total = draft.copies_total[1]]_vars

\* C23: in every reachable state every stored book has
\* 0 <= copies_available <= copies_total.
C23_CopiesInRange ==
  \A k \in 1..Len(books) :
    /\ 0 <= books[k].copies_available
    /\ books[k].copies_available <= books[k].copies_total

\* a record without its two timestamps
Untimed(book) ==
  [id |-> book.id, title |-> book.title, author |-> book.author,
   isbn |-> book.isbn, published_year |-> book.published_year,
   category |-> book.category, copies_available |-> book.copies_available,
   copies_total |-> book.copies_total]

\* what a client reads off a response: the status and the record data
Observed(r) ==
  [status |-> r.status,
   body |-> [i \in 1..Len(r.body) |-> Untimed(r.body[i])],
   data |-> [i \in 1..Len(r.data) |-> Untimed(r.data[i])],
   pagination |-> r.pagination]

\* C24: sent the same requests from the seeded store on, the in-memory server
\* and the SQLite server answer every request with the same status and the
\* same record data.
C24_VariantsEquivalent ==
  variant = "both" => Observed(resp) = Observed(twin.resp)

\* C25: a stop and start of the SQLite server leaves the store holding
\* exactly the books it held before, an emptied store included.
C25_RestartKeepsStore ==
  [][Handled("restart") => (books' = books /\ seq' = seq)]_vars

\* the sort key of a is not above that of b: titles and authors compared
\* lower-cased, years as numbers (an absent year counts as 0)
KeyAtMost(a, b, sort_by) ==
  IF sort_by = Str_published_year
  THEN (IF a.published_year = <<>> THEN 0 ELSE a.published_year[1])
         <= (IF b.published_year = <<>> THEN 0 ELSE b.published_year[1])
  ELSE IF sort_by = Str_title
  THEN ~StrLess(ToLowerCase(b.title), ToLowerCase(a.title))
  ELSE ~StrLess(ToLowerCase(b.author), ToLowerCase(a.author))

\* C26: the records of a list response are in the order of the sort key,
\* compared without regard to case: no record is followed by one of a smaller
\* key when the order is asc, of a larger key when it is desc.
C26_SortedByKey ==
  IsListOk =>
    LET q == resp.req.query
        sort_by == OrDefault(q.sort_by, Str_title)
        descending == ToLowerCase(OrDefault(q.order, Str_asc)) = Str_desc
    IN \A i \in 1..(Len(resp.data) - 1) :
         IF descending
         THEN KeyAtMost(resp.data[i + 1], resp.data[i], sort_by)
         ELSE KeyAtMost(resp.data[i], resp.data[i + 1], sort_by)

\* C27: a list request with a category filter and valid sort_by and order is
\* answered 200, without the books that have no category, whatever the store
\* holds.
C27_CategoryFilterNeverFails ==
  LET q == resp.req.query
  IN (/\ resp.op = "list"
      /\ q.category \notin {Undefined, Some(EmptyString)}
      /\ OrDefault(q.sort_by, Str_title) \in {Str_title, Str_published_year, Str_author}
      /\ OrDefault(q.order, Str_asc) \in {Str_asc, Str_desc})
     => /\ resp.status = 200
        /\ \A i \in 1..Len(resp.data) : resp.data[i].category # <<>>

\* the handler of slot s has looked its isbn up and found no row of it
LookedUpNothing(s) ==
  /\ pending[s].pc \in {"insert", "fetch", "done"}
  /\ ~MissingRequired(pending[s].draft[1])
  /\ pending[s].existingBook = Undefined

\* two creates of one isbn that no seed row carries, whose lookups both found
\* nothing: no row is deleted here, so both looked up before either inserted
Raced(s1, s2) ==
  /\ s1 # s2
  /\ LookedUpNothing(s1)
  /\ LookedUpNothing(s2)
  /\ pending[s1].draft[1].isbn = pending[s2].draft[1].isbn

\* C28: in the SQLite variant, when two creates of the same new isbn both look
\* the isbn up before either inserts, the table never holds two rows of that
\* isbn, at most one of the two is answered 201, and once both are answered
\* one of them has an error response.
C28_RaceKeepsIsbnUnique ==
  variant = "db" =>
    \A s1, s2 \in Slots :
      Raced(s1, s2) =>
        /\ Cardinality({k \in 1..Len(books) :
                          books[k].isbn = pending[s1].draft[1].isbn[1]}) <= 1
        /\ ~(pending[s1].resp.status = 201 /\ pending[s2].resp.status = 201)
        /\ (pending[s1].pc = "done" /\ pending[s2].pc = "done")
             => (pending[s1].resp.status >= 400 \/ pending[s2].resp.status >= 400)

\* both creates of the race are answered: one 201, the other 500
C28_Witness ==
  /\ variant = "db"
  /\ \E s1, s2 \in Slots :
       /\ Raced(s1, s2)
       /\ pending[s1].pc = "done"
       /\ pending[s2].pc = "done"
       /\ pending[s1].resp.status = 201
       /\ pending[s2].resp.status = 500
       /\ pending[s2].resp.code = "DATABASE_ERROR"

\* the step stores the row of a create
Inserted == Len(books') = Len(books) + 1

\* the handler of slot s is suspended between its lookup and its insert
InWindow(s) == pending[s].pc = "insert"

\* the insert of the step is made by a handler that was suspended after its
\* lookup, so that steps of other handlers could come between the two
InsertAfterWindow ==
  \E s \in Slots : InWindow(s) /\ pending'[s].pc = "fetch"

\* the lookup and the insert are made in this one step: the isbn stored is
\* looked up in the very store the row is added to
InsertWithLookup ==
  /\ \A s \in Slots : ~InWindow(s)
  /\ books'[Len(books')].isbn \notin Isbns(books)

Answered == resp' # resp

\* initializeDatabase has returned: the connection is open, the table exists
\* and, until a request changes it, holds at least one book
Initialized ==
  /\ server.init = "done"
  /\ resp = NoResponse => Len(books) > 0

\* C30: in the SQLite variant the server listens only once initializeDatabase
\* has completed, a process whose initialization failed has exited without
\* listening, and every request is handled by a listening server whose
\* database is initialized.
C30_ListenAfterInit ==
  /\ [](server.listened => Initialized)
  /\ []((server.exited /\ server.init # "done") => ~server.listened)
  /\ [][Answered => (Accepting(server) /\ server.init = "done")]_vars

\* a new file was seeded during startup and a request was answered from it
C30_Witness ==
  /\ Accepting(server)
  /\ deletedIds = {}
  /\ resp.op = "get"
  /\ resp.status = 200

====
